---- MODULE Spec2Model ----
(***************************************************************************)
(* Model of src/database/connection_pool.py: class ConnectionPool, a       *)
(* bounded pool of database connections shared by concurrent threads.      *)
(*                                                                         *)
(* Every public method runs its whole body inside `with self._lock`.  A    *)
(* method is split into steps only where its thread can be suspended while *)
(* it owns the lock: the backend open (pymysql.connect), the liveness      *)
(* probe (SELECT 1), the polling wait of get_connection and a put on a     *)
(* full queue.  Between two such points the code runs as one step.         *)
(***************************************************************************)
EXTENDS Integers, Sequences, FiniteSets, TLC

(* ------------------------------ bounds --------------------------------- *)
\* number of caller threads
NThreads == 3
\* largest max_size a pool is constructed with
MaxPoolSize == 2
\* largest timeout argument of get_connection, in poll intervals of 0.1 s
MaxTimeout == 2
\* callers stop acquiring once active_connections is this far above max_size
MaxOvershoot == 1
\* largest max_size whose construction is followed step by step
MaxCtorSize == 6

\* _initialize_pool: initial_size = min(3, self.max_size)
WarmUpTarget == 3

Threads == 1..NThreads
NoThread == 0
\* a thread owns at most one handle and the queue holds at most max_size
Handles == 1..(NThreads + MaxPoolSize)
NoConn == 0

VARIABLES
  max_size,            \* self.max_size
  pool,                \* self._pool: FIFO queue of idle handles, maxsize = max_size
  active_connections,  \* self._active_connections
  lock,                \* self._lock: the thread inside a `with self._lock` block
  pc,                  \* where each caller thread is
  conn,                \* the handle each caller thread owns (its `conn`)
  hstate,              \* per handle: "none" | "healthy" | "stale" | "closed"
  wait_timeout,        \* `timeout` of the get_connection that is in its wait loop
  wait_elapsed,        \* time.time() - start_time of that loop, in poll intervals
  release_seen,        \* a healthy return_connection call was pending at a failed poll
  last,                \* how the latest step of a pool method ended
  scope,               \* where the thread using `with pool.connection()` is
  released,            \* return_connection calls made by connection() in this scope
  stats_out,           \* the dict the latest stats() call returned
  init_left,           \* _initialize_pool: iterations of its loop still to run
  init_log,            \* _initialize_pool: outcome of each open so far
  pool_instance,       \* the module global _pool_instance
  pool_lock,           \* the module global _pool_lock: the thread inside it
  pools_built,         \* how many times ConnectionPool(...) has been called
  gpc,                 \* where each thread is in get_connection_pool
  garg,                \* the arguments of each thread's get_connection_pool call
  gret                 \* what each thread's latest get_connection_pool returned

\* the state no method of the pool reads or writes
\* the module globals and the calls of get_connection_pool
globals == <<pool_instance, pool_lock, pools_built, gpc, garg, gret>>

rest == <<scope, released, stats_out, init_left, init_log, globals>>

vars == <<max_size, pool, active_connections, lock, pc, conn, hstate,
          wait_timeout, wait_elapsed, release_seen, last, rest>>

\* no stats() call has returned yet
NoStats == [pool_size |-> -1]

\* _pool_instance = None; no get_connection_pool call has returned
NoPool == [id |-> 0]
\* the thread is not inside get_connection_pool
NoArgs == [config |-> "", max_size |-> 0]

\* lines 176-177: _pool_instance = None, _pool_lock = Lock()
GlobalsInit ==
  /\ pool_instance = NoPool
  /\ pool_lock = NoThread
  /\ pools_built = 0
  /\ gpc = [t \in Threads |-> "out"]
  /\ garg = [t \in Threads |-> NoArgs]
  /\ gret = [t \in Threads |-> NoPool]

(* ----------------------------- helpers --------------------------------- *)
Min(a, b) == IF a < b THEN a ELSE b

\* conn.open: true for a live socket, whether or not the server still answers
IsOpen(h) == hstate[h] \in {"healthy", "stale"}

\* mutant: the probe is passed by every handle
ProbeOk_Skipped(h) == TRUE

\* `with conn.cursor() as cursor: cursor.execute("SELECT 1")` does not raise
ProbeOk(h) == hstate[h] = "healthy"

\* the handle object a successful pymysql.connect returns: one not in use
NewHandle == CHOOSE h \in Handles : hstate[h] = "none" /\ \A g \in Handles : hstate[g] = "none" => h <= g

\* Queue.empty()
PoolEmpty == pool = <<>>

\* Queue.full(): a put on a full queue blocks
PoolFull == Len(pool) >= max_size

\* mutant: the head is read but left in the queue
PoolAfterGet_Peek == pool

\* Queue.get(): the queue once its head has been handed out
PoolAfterGet == Tail(pool)

\* mutant: the handle is put at the front of the queue
PoolAfterPut_Front(c) == <<c>> \o pool

\* Queue.put(c)
PoolAfterPut(c) == Append(pool, c)

\* the set of handles in the idle queue
IdleSet == {pool[i] : i \in DOMAIN pool}

\* the handles checked out by callers
CheckedOut == {conn[t] : t \in {u \in Threads : conn[u] # NoConn}}

\* a healthy handle is being returned and its call waits for the lock
ReleasePending == \E u \in Threads : pc[u] = "ret_lock" /\ conn[u] # NoConn /\ ProbeOk(conn[u])

(* ------------------------------- Init ---------------------------------- *)
\* __init__ + _initialize_pool: min(3, max_size) opens, failures skipped
Init ==
  /\ max_size \in 1..MaxPoolSize
  /\ \E k \in 0..Min(WarmUpTarget, max_size) :
       /\ pool = [i \in 1..k |-> i]
       /\ hstate = [h \in Handles |-> IF h <= k THEN "healthy" ELSE "none"]
  /\ active_connections = 0
  /\ lock = NoThread
  /\ pc = [t \in Threads |-> "ready"]
  /\ conn = [t \in Threads |-> NoConn]
  /\ wait_timeout = 0
  /\ wait_elapsed = 0
  /\ release_seen = FALSE
  /\ last = "constructed"
  /\ scope = "out"
  /\ released = 0
  /\ stats_out = NoStats
  /\ init_left = 0
  /\ init_log = <<>>
  /\ GlobalsInit

(* ------------------- __init__ and _initialize_pool --------------------- *)
\* line 40: initial_size = min(3, self.max_size)
InitialSize == Min(WarmUpTarget, max_size)

\* mutant: the exception of a failed warm-up open leaves __init__
WarmUpFailureExit_Raise == "construct_failed"

\* lines 46-47: the failure is logged and the loop goes on
WarmUpFailureExit == "constructing"

\* lines 29-36: the fields are set and _initialize_pool is about to run
InitCtor ==
  /\ max_size \in 1..MaxCtorSize
  /\ pool = <<>>
  /\ active_connections = 0
  /\ lock = NoThread
  /\ pc = [t \in Threads |-> "ready"]
  /\ conn = [t \in Threads |-> NoConn]
  /\ hstate = [h \in Handles |-> "none"]
  /\ wait_timeout = 0
  /\ wait_elapsed = 0
  /\ release_seen = FALSE
  /\ last = "constructing"
  /\ scope = "out"
  /\ released = 0
  /\ stats_out = NoStats
  /\ init_left = InitialSize
  /\ init_log = <<>>
  /\ GlobalsInit

\* lines 42-47: one turn of the warm-up loop; the open returns a connection,
\* which is put into the queue, or raises
initialize_pool ==
  /\ last = "constructing" /\ init_left > 0
  /\ init_left' = init_left - 1
  /\ \E ok \in BOOLEAN :
       IF ok
         THEN /\ init_log' = Append(init_log, "opened")
              /\ IF PoolFull
                   THEN /\ last' = "put_blocked"
                        /\ UNCHANGED <<pool, hstate>>
                   ELSE /\ pool' = PoolAfterPut(NewHandle)
                        /\ hstate' = [hstate EXCEPT ![NewHandle] = "healthy"]
                        /\ UNCHANGED last
         ELSE /\ init_log' = Append(init_log, "failed")
              /\ last' = WarmUpFailureExit
              /\ UNCHANGED <<pool, hstate>>
  /\ UNCHANGED <<max_size, active_connections, lock, pc, conn,
                 wait_timeout, wait_elapsed, release_seen,
                 scope, released, stats_out, globals>>

\* line 36 returns and __init__ with it: the pool is constructed
constructed ==
  /\ last = "constructing" /\ init_left = 0
  /\ last' = "constructed"
  /\ UNCHANGED <<max_size, pool, active_connections, lock, pc, conn, hstate,
                 wait_timeout, wait_elapsed, release_seen, rest>>

(* ---------------------- the callers (one handle each) ------------------ *)
\* a thread releases the handle it owns, once: pool.return_connection(conn)
\* finds the lock taken and blocks at line 113.  (With the lock free the
\* call goes straight into return_connection below.)
call_return_connection(t) ==
  /\ UNCHANGED rest
  /\ pc[t] = "ready" /\ conn[t] # NoConn
  /\ lock # NoThread
  /\ pc' = [pc EXCEPT ![t] = "ret_lock"]
  /\ UNCHANGED <<max_size, pool, active_connections, lock, conn, hstate,
                 wait_timeout, wait_elapsed, release_seen, last>>

\* the caller sees the exception get_connection raised; it owns no handle
\* (in connection(): `conn` is still None, so `finally` releases nothing).
\* The timer of the call that timed out is forgotten, unless a later call
\* is in the wait loop and the timer is that call's.
caught(t) ==
  /\ UNCHANGED rest
  /\ pc[t] \in {"ConnectionError", "TimeoutError"}
  /\ pc' = [pc EXCEPT ![t] = "ready"]
  /\ IF pc[t] = "TimeoutError" /\ \A u \in Threads : pc[u] # "waiting"
       THEN wait_timeout' = 0 /\ wait_elapsed' = 0 /\ release_seen' = FALSE
       ELSE UNCHANGED <<wait_timeout, wait_elapsed, release_seen>>
  /\ UNCHANGED <<max_size, pool, active_connections, lock, conn, hstate, last>>

\* a checked-out connection ends: the server stops answering (the socket
\* stays open) or the socket is closed.  A connection that ends while idle
\* is seen by nobody before it is handed out (get_connection does not look
\* at it), so its end is taken right after the hand-out.
degrade(h) ==
  /\ UNCHANGED rest
  /\ h \in CheckedOut
  /\ hstate[h] \in {"healthy", "stale"}
  /\ \E s \in {"stale", "closed"} :
       /\ s # hstate[h]
       /\ hstate' = [hstate EXCEPT ![h] = s]
  /\ UNCHANGED <<max_size, pool, active_connections, lock, pc, conn,
                 wait_timeout, wait_elapsed, release_seen, last>>

(* --------------------------- get_connection ---------------------------- *)
\* mutant: below max_size a new connection is preferred to an idle one
ReuseIdle_OnlyWhenFull == ~PoolEmpty /\ active_connections >= max_size

\* line 76: `if not self._pool.empty()`
ReuseIdle == ~PoolEmpty

\* mutant: off by one, a handle is opened with the counter at max_size
CanCreate_OffByOne == active_connections <= max_size

\* line 85: `if self._active_connections < self.max_size`
CanCreate == active_connections < max_size

\* mutant: the loop gives up one poll interval early
KeepWaiting_OneShort == wait_elapsed + 1 < wait_timeout

\* line 96: `while time.time() - start_time < timeout`
KeepWaiting == wait_elapsed < wait_timeout

\* mutant: the counter was raised before the open and is not taken back
ActiveAfterFailedOpen_Counted == active_connections + 1

\* lines 90-92: the counter when the open raised
ActiveAfterFailedOpen == active_connections

\* lines 78-80 and 98-100: conn = self._pool.get(); counter += 1; return conn
HandOutIdle(t) ==
  /\ conn' = [conn EXCEPT ![t] = Head(pool)]
  /\ pool' = PoolAfterGet
  /\ active_connections' = active_connections + 1
  /\ pc' = [pc EXCEPT ![t] = "ready"]
  /\ lock' = NoThread
  /\ last' = "handed_out"

\* lines 75-95, called by a thread that owns no handle: take the lock; pop
\* an idle handle, or start a backend open, or start the wait loop.
\* `timeout` is first read at line 96, so its value is drawn there.
get_connection(t) ==
  /\ UNCHANGED rest
  /\ pc[t] = "ready" /\ conn[t] = NoConn /\ lock = NoThread
  /\ active_connections < max_size + MaxOvershoot
  /\ IF ReuseIdle
       THEN /\ HandOutIdle(t)
            /\ UNCHANGED <<wait_timeout, wait_elapsed, release_seen>>
       ELSE IF CanCreate
         THEN /\ lock' = t
              /\ pc' = [pc EXCEPT ![t] = "get_open"]
              /\ last' = "opening"
              /\ UNCHANGED <<pool, active_connections, conn,
                             wait_timeout, wait_elapsed, release_seen>>
         ELSE /\ lock' = t
              /\ pc' = [pc EXCEPT ![t] = "waiting"]
              /\ wait_timeout' \in 0..MaxTimeout
              /\ wait_elapsed' = 0
              /\ release_seen' = FALSE
              /\ last' = "waiting"
              /\ UNCHANGED <<pool, active_connections, conn>>
  /\ UNCHANGED <<max_size, hstate>>

\* lines 86-92: self._create_connection() returns or raises
get_connection_open(t) ==
  /\ UNCHANGED rest
  /\ pc[t] = "get_open" /\ lock = t
  /\ \E ok \in BOOLEAN :
       IF ok
         THEN /\ conn' = [conn EXCEPT ![t] = NewHandle]
              /\ hstate' = [hstate EXCEPT ![NewHandle] = "healthy"]
              /\ active_connections' = active_connections + 1
              /\ pc' = [pc EXCEPT ![t] = "ready"]
              /\ last' = "created"
         ELSE /\ active_connections' = ActiveAfterFailedOpen
              /\ pc' = [pc EXCEPT ![t] = "ConnectionError"]
              /\ last' = "open_failed"
              /\ UNCHANGED <<conn, hstate>>
  /\ lock' = NoThread
  /\ UNCHANGED <<max_size, pool, wait_timeout, wait_elapsed, release_seen>>

\* lines 96-104: one turn of the wait loop, the lock still held:
\* self._pool.get(timeout=0.1) returns a handle or raises Empty after 0.1 s
get_connection_wait(t) ==
  /\ UNCHANGED rest
  /\ pc[t] = "waiting" /\ lock = t
  /\ IF KeepWaiting
       THEN IF ~PoolEmpty
              THEN /\ HandOutIdle(t)
                   /\ UNCHANGED <<wait_timeout, wait_elapsed, release_seen>>
              ELSE /\ wait_elapsed' = wait_elapsed + 1
                   /\ release_seen' = (release_seen \/ ReleasePending)
                   /\ UNCHANGED <<pool, active_connections, lock, pc, conn,
                                  wait_timeout, last>>
       ELSE /\ pc' = [pc EXCEPT ![t] = "TimeoutError"]
            /\ lock' = NoThread
            /\ last' = "timed_out"
            /\ UNCHANGED <<pool, active_connections, conn,
                           wait_timeout, wait_elapsed, release_seen>>
  /\ UNCHANGED <<max_size, hstate>>

(* -------------------------- return_connection -------------------------- *)
\* mutant: the dropped handle is not taken off the counter
ActiveAfterDiscard_Kept == active_connections

\* line 130: the counter after a handle that is not open was returned
ActiveAfterDiscard == active_connections - 1

\* mutant: a handle put back is taken off the counter
ActiveAfterEnqueue_Lowered == active_connections - 1

\* lines 115-128: the counter after a handle that passed the probe, or its
\* replacement, was put back (no statement on this path changes it)
ActiveAfterEnqueue == active_connections

\* mutant: the slot of the handle that could not be replaced stays counted
ActiveAfterFailedReplace_Kept == active_connections

\* line 125: the counter after the replacement open raised
ActiveAfterFailedReplace == active_connections - 1

\* mutant: the failure is raised to the caller, as get_connection does
ReplaceFailedExit_Raise == "ConnectionError"

\* lines 123-126: the failure is logged and the method returns
ReplaceFailedExit == "ready"

\* line 128: self._pool.put(c), the lock held.  On a full queue the put
\* blocks, and no other thread can take the lock to make room.
PutBack(t, c) ==
  IF PoolFull
    THEN /\ pc' = [pc EXCEPT ![t] = "put_blocked"]
         /\ conn' = [conn EXCEPT ![t] = c]
         /\ last' = "put_blocked"
         /\ UNCHANGED <<pool, active_connections, lock>>
    ELSE /\ pool' = PoolAfterPut(c)
         /\ last' = (IF c = conn[t] THEN "enqueued" ELSE "replaced")
         /\ active_connections' = ActiveAfterEnqueue
         /\ conn' = [conn EXCEPT ![t] = NoConn]
         /\ pc' = [pc EXCEPT ![t] = "ready"]
         /\ lock' = NoThread

\* lines 113-114 and 129-130: take the lock; a handle that is not open is
\* dropped, an open one is probed
return_connection(t) ==
  /\ UNCHANGED rest
  /\ pc[t] \in {"ready", "ret_lock"} /\ conn[t] # NoConn /\ lock = NoThread
  /\ IF IsOpen(conn[t])
       THEN /\ lock' = t
            /\ pc' = [pc EXCEPT ![t] = "ret_probe"]
            /\ last' = "probing"
            /\ UNCHANGED <<pool, active_connections, conn, hstate>>
       ELSE /\ active_connections' = ActiveAfterDiscard
            /\ hstate' = [hstate EXCEPT ![conn[t]] = "none"]
            /\ conn' = [conn EXCEPT ![t] = NoConn]
            /\ pc' = [pc EXCEPT ![t] = "ready"]
            /\ last' = "discarded"
            /\ UNCHANGED <<pool, lock>>
  /\ UNCHANGED <<max_size, wait_timeout, wait_elapsed, release_seen>>

\* lines 115-119 and 128: the probe returns (put the handle back) or raises
\* (open a replacement)
return_connection_probe(t) ==
  /\ UNCHANGED rest
  /\ pc[t] = "ret_probe" /\ lock = t
  /\ IF ProbeOk(conn[t])
       THEN PutBack(t, conn[t])
       ELSE /\ pc' = [pc EXCEPT ![t] = "ret_open"]
            /\ last' = "replacing"
            /\ UNCHANGED <<pool, active_connections, lock, conn>>
  /\ UNCHANGED <<max_size, hstate, wait_timeout, wait_elapsed, release_seen>>

\* lines 121-128: the replacement open returns (put the new handle) or
\* raises (count down, return)
return_connection_open(t) ==
  /\ UNCHANGED rest
  /\ pc[t] = "ret_open" /\ lock = t
  /\ \E ok \in BOOLEAN :
       IF ok
         THEN /\ hstate' = [hstate EXCEPT ![conn[t]] = "none", ![NewHandle] = "healthy"]
              /\ PutBack(t, NewHandle)
         ELSE /\ active_connections' = ActiveAfterFailedReplace
              /\ hstate' = [hstate EXCEPT ![conn[t]] = "none"]
              /\ conn' = [conn EXCEPT ![t] = NoConn]
              /\ pc' = [pc EXCEPT ![t] = ReplaceFailedExit]
              /\ lock' = NoThread
              /\ last' = "replace_failed"
              /\ UNCHANGED pool
  /\ UNCHANGED <<max_size, wait_timeout, wait_elapsed, release_seen>>

(* ------------------------------ close_all ------------------------------ *)
\* mutant: the counter is left as it was
ActiveAfterCloseAll_Kept == active_connections

\* line 143: self._active_connections = 0
ActiveAfterCloseAll == 0

\* mutant: the handles in the hands of callers are closed as well
ClosedByCloseAll_Every == IdleSet \cup CheckedOut

\* lines 135-139: the handles close_all closes are those it takes out of
\* the queue
ClosedByCloseAll == IdleSet

\* lines 134-143: every idle handle is taken out and closed, the counter is
\* set to 0
close_all(t) ==
  /\ UNCHANGED rest
  /\ pc[t] = "ready" /\ lock = NoThread
  /\ hstate' = [h \in Handles |-> IF h \in ClosedByCloseAll THEN "none" ELSE hstate[h]]
  /\ pool' = <<>>
  /\ active_connections' = ActiveAfterCloseAll
  /\ last' = "closed_all"
  /\ UNCHANGED <<max_size, lock, pc, conn, wait_timeout, wait_elapsed, release_seen>>

(* -------------------------------- stats -------------------------------- *)
\* mutant: floor division
Percentage_Floor(a, m) == [num |-> (a \div m) * 100, den |-> 1]

\* line 153: (a / m) * 100 in floating point, kept as the fraction num/den
Percentage(a, m) == [num |-> a * 100, den |-> m]

\* lines 148-154: the dict stats() builds
StatsDict ==
  [pool_size |-> Len(pool),
   max_size |-> max_size,
   active_connections |-> active_connections,
   available_connections |-> Len(pool),
   used_percentage |-> Percentage(active_connections, max_size)]

\* mutant: the entries are counted by taking them out
PoolAfterQsize_Drained == <<>>

\* lines 149 and 152: self._pool.qsize() counts the entries where they are
PoolAfterQsize == pool

\* lines 147-154: take the lock, build the dict, return it
stats(t) ==
  /\ pc[t] = "ready" /\ lock = NoThread
  /\ stats_out' = StatsDict
  /\ pool' = PoolAfterQsize
  /\ UNCHANGED <<max_size, active_connections, lock, pc, conn, hstate,
                 wait_timeout, wait_elapsed, release_seen, last,
                 scope, released, init_left, init_log, globals>>

(* ------------------- connection(): the scoped wrapper ------------------ *)
\* the thread that uses `with pool.connection() as conn`; the other threads
\* call get_connection and return_connection themselves
Scoped == 1
Manual == Threads \ {Scoped}

\* the ways a unit of work leaves the `with` block
ExitPaths == {"normal", "error", "early"}

\* mutant: the release follows the yield without try/finally
RunsFinally_NormalOnly(path) == path = "normal"

\* line 171: `finally:` runs however the block is left
RunsFinally(path) == path \in ExitPaths

\* line 172: `if conn:`
FinallyReleases(c) == c # NoConn

\* lines 167-169: conn = None; get_connection(timeout) is called
connection_enter ==
  /\ scope = "out" /\ pc[Scoped] = "ready" /\ conn[Scoped] = NoConn
  /\ scope' = "entered"
  /\ released' = 0
  /\ UNCHANGED <<max_size, pool, active_connections, lock, pc, conn, hstate,
                 wait_timeout, wait_elapsed, release_seen, last,
                 stats_out, init_left, init_log, globals>>

\* lines 170-173: the unit of work that was given the handle ends, by
\* returning, by raising or by leaving the block early; the finally clause
\* calls return_connection(conn)
connection_exit ==
  /\ scope = "entered" /\ pc[Scoped] = "ready" /\ conn[Scoped] # NoConn
  /\ \E path \in ExitPaths :
       /\ scope' = path
       /\ IF RunsFinally(path) /\ FinallyReleases(conn[Scoped])
            THEN /\ released' = released + 1
                 /\ pc' = [pc EXCEPT ![Scoped] = "ret_lock"]
            ELSE UNCHANGED <<released, pc>>
  /\ UNCHANGED <<max_size, pool, active_connections, lock, conn, hstate,
                 wait_timeout, wait_elapsed, release_seen, last,
                 stats_out, init_left, init_log, globals>>

\* lines 169 and 171-172: get_connection raised, so `conn` is still None
\* when the finally clause runs
connection_raised ==
  /\ scope = "entered" /\ pc[Scoped] \in {"ConnectionError", "TimeoutError"}
  /\ scope' = "raised"
  /\ IF FinallyReleases(conn[Scoped])
       THEN /\ released' = released + 1
            /\ pc' = [pc EXCEPT ![Scoped] = "ret_lock"]
       ELSE UNCHANGED <<released, pc>>
  /\ UNCHANGED <<max_size, pool, active_connections, lock, conn, hstate,
                 wait_timeout, wait_elapsed, release_seen, last,
                 stats_out, init_left, init_log, globals>>

\* the `with` statement is over: return_connection has returned, or the
\* exception of get_connection has reached the caller
connection_leave ==
  /\ scope \in ExitPaths \cup {"raised"} /\ pc[Scoped] = "ready"
  /\ scope' = "out"
  /\ UNCHANGED <<max_size, pool, active_connections, lock, pc, conn, hstate,
                 wait_timeout, wait_elapsed, release_seen, last,
                 released, stats_out, init_left, init_log, globals>>

(* -------------------------- get_connection_pool ------------------------ *)
\* the config arguments callers pass: none, or a DatabaseConfig of their own
Configs == {"None", "config_a", "config_b"}

\* lines 196-197: `if config is None: config = DEFAULT_CONFIG`
ResolveConfig(c) == IF c = "None" THEN "DEFAULT_CONFIG" ELSE c

\* mutant: the function body runs without _pool_lock
PoolLockFree_NoLock == TRUE

\* line 194: `with _pool_lock:` is entered when no thread is inside it
PoolLockFree == pool_lock = NoThread

\* no ConnectionPool has been constructed in this process
InitSingleton ==
  /\ max_size = 0
  /\ pool = <<>>
  /\ hstate = [h \in Handles |-> "none"]
  /\ active_connections = 0
  /\ lock = NoThread
  /\ pc = [t \in Threads |-> "ready"]
  /\ conn = [t \in Threads |-> NoConn]
  /\ wait_timeout = 0
  /\ wait_elapsed = 0
  /\ release_seen = FALSE
  /\ last = "no_pool"
  /\ scope = "out"
  /\ released = 0
  /\ stats_out = NoStats
  /\ init_left = 0
  /\ init_log = <<>>
  /\ GlobalsInit

\* lines 192-195: the call takes _pool_lock and tests `_pool_instance is None`
get_connection_pool(t) ==
  /\ gpc[t] = "out"
  /\ PoolLockFree
  /\ pool_lock' = t
  /\ \E c \in Configs, m \in 1..MaxPoolSize :
       garg' = [garg EXCEPT ![t] = [config |-> c, max_size |-> m]]
  /\ gpc' = [gpc EXCEPT ![t] = IF pool_instance = NoPool THEN "construct" ELSE "return"]
  /\ UNCHANGED <<max_size, pool, active_connections, lock, pc, conn, hstate,
                 wait_timeout, wait_elapsed, release_seen, last,
                 scope, released, stats_out, init_left, init_log,
                 pool_instance, pools_built, gret>>

\* lines 196-198: _pool_instance = ConnectionPool(config, max_size), whose
\* warm-up opens min(3, max_size) connections and keeps those that opened
get_connection_pool_construct(t) ==
  /\ gpc[t] = "construct"
  /\ pools_built' = pools_built + 1
  /\ pool_instance' = [id |-> pools_built + 1,
                       config |-> ResolveConfig(garg[t].config),
                       max_size |-> garg[t].max_size]
  /\ max_size' = garg[t].max_size
  /\ \E k \in 0..Min(WarmUpTarget, garg[t].max_size) :
       /\ pool' = [i \in 1..k |-> i]
       /\ hstate' = [h \in Handles |-> IF h <= k THEN "healthy" ELSE "none"]
  /\ active_connections' = 0
  /\ last' = "constructed"
  /\ gpc' = [gpc EXCEPT ![t] = "return"]
  /\ UNCHANGED <<lock, pc, conn, wait_timeout, wait_elapsed, release_seen,
                 scope, released, stats_out, init_left, init_log,
                 pool_lock, garg, gret>>

\* line 200: return _pool_instance, which leaves the `with` block
get_connection_pool_return(t) ==
  /\ gpc[t] = "return"
  /\ gret' = [gret EXCEPT ![t] = pool_instance]
  /\ pool_lock' = NoThread
  /\ garg' = [garg EXCEPT ![t] = NoArgs]
  /\ gpc' = [gpc EXCEPT ![t] = "out"]
  /\ UNCHANGED <<max_size, pool, active_connections, lock, pc, conn, hstate,
                 wait_timeout, wait_elapsed, release_seen, last,
                 scope, released, stats_out, init_left, init_log,
                 pool_instance, pools_built>>

(* ---------------------------- specifications --------------------------- *)
\* get_connection and return_connection only
NextPool ==
  \/ \E t \in Threads : call_return_connection(t)
  \/ \E t \in Threads : caught(t)
  \/ \E h \in Handles : degrade(h)
  \/ \E t \in Threads : get_connection(t)
  \/ \E t \in Threads : get_connection_open(t)
  \/ \E t \in Threads : get_connection_wait(t)
  \/ \E t \in Threads : return_connection(t)
  \/ \E t \in Threads : return_connection_probe(t)
  \/ \E t \in Threads : return_connection_open(t)

SpecPool == Init /\ [][NextPool]_vars

\* every operation of the pool
Next ==
  \/ NextPool
  \/ \E t \in Threads : close_all(t)

Spec == Init /\ [][Next]_vars

\* get_connection, return_connection and stats()
NextStats ==
  \/ NextPool
  \/ \E t \in Threads : stats(t)

SpecStats == Init /\ [][NextStats]_vars

\* the construction of a pool
NextCtor ==
  \/ initialize_pool
  \/ constructed

SpecCtor == InitCtor /\ [][NextCtor]_vars

\* a pool of at most MaxPoolSize handles from its construction on: the
\* warm-up, then get_connection and return_connection
InitLife == InitCtor /\ max_size <= MaxPoolSize

\* __init__ has returned: the pool object is in the hands of its callers
Built == last # "constructing"

NextLife ==
  \/ initialize_pool
  \/ constructed
  \/ \E h \in Handles : Built /\ degrade(h)
  \/ \E t \in Threads : Built /\ call_return_connection(t)
  \/ \E t \in Threads : Built /\ caught(t)
  \/ \E t \in Threads : Built /\ get_connection(t)
  \/ \E t \in Threads : Built /\ get_connection_open(t)
  \/ \E t \in Threads : Built /\ get_connection_wait(t)
  \/ \E t \in Threads : Built /\ return_connection(t)
  \/ \E t \in Threads : Built /\ return_connection_probe(t)
  \/ \E t \in Threads : Built /\ return_connection_open(t)

SpecLife == InitLife /\ [][NextLife]_vars

\* concurrent calls of get_connection_pool in a process without a pool
NextSingleton ==
  \/ \E t \in Threads : get_connection_pool(t)
  \/ \E t \in Threads : get_connection_pool_construct(t)
  \/ \E t \in Threads : get_connection_pool_return(t)

SpecSingleton == InitSingleton /\ [][NextSingleton]_vars

\* one thread works through connection(), the others through
\* get_connection and return_connection
NextScoped ==
  \/ connection_enter
  \/ connection_exit
  \/ connection_raised
  \/ connection_leave
  \/ scope = "entered" /\ get_connection(Scoped)
  \/ pc[Scoped] = "ret_lock" /\ return_connection(Scoped)
  \/ scope = "raised" /\ caught(Scoped)
  \/ \E t \in Manual : call_return_connection(t)
  \/ \E t \in Manual : caught(t)
  \/ \E t \in Manual : get_connection(t)
  \/ \E t \in Manual : return_connection(t)
  \/ \E h \in Handles : degrade(h)
  \/ \E t \in Threads : get_connection_open(t)
  \/ \E t \in Threads : get_connection_wait(t)
  \/ \E t \in Threads : return_connection_probe(t)
  \/ \E t \in Threads : return_connection_open(t)

SpecScoped == Init /\ [][NextScoped]_vars

(* ------------------------------ properties ----------------------------- *)
\* no pool method is in progress: every started call has returned or raised
Quiescent == lock = NoThread

\* the step is the first step of a get_connection call by t
GetStep(t) ==
  /\ pc[t] = "ready" /\ conn[t] = NoConn
  /\ (pc'[t] # "ready" \/ conn'[t] # NoConn)

\* the step is the first step of return_connection by t inside the lock
ReturnStep(t) ==
  /\ pc[t] \in {"ready", "ret_lock"} /\ conn[t] # NoConn
  /\ pc'[t] # "ret_lock"
  /\ (pc'[t] # pc[t] \/ conn'[t] # conn[t])

\* no backend open succeeded in the step: no handle came into being
NoNewHandle == \A h \in Handles : hstate[h] = "none" => hstate'[h] = "none"

\* C1: after every completed operation, with each acquired handle released
\* exactly once, active_connections + idle_count <= max_size
C1_ActivePlusIdleWithinMax ==
  Quiescent => active_connections + Len(pool) <= max_size

\* C2: with no thread holding more than one handle at a time,
\* active_connections never exceeds max_size
C2_ActiveNeverExceedsMax == active_connections <= max_size

\* C3: after completed get_connection/return_connection calls, one release
\* per acquire, active_connections is the number of handles checked out
C3_ActiveCountsCheckedOut ==
  Quiescent => active_connections = Cardinality(CheckedOut)

\* C4: in every reachable state of interleaved get_connection and
\* return_connection calls, the handles checked out plus the idle handles
\* number at most max_size
C4_HoldersPlusIdleWithinMax ==
  Cardinality(CheckedOut) + Len(pool) <= max_size

\* C4 witness: a backend open has just filled the last free slot: every
\* slot is checked out, by more than one caller, and the idle queue is empty
C4_Witness ==
  /\ last = "created"
  /\ Cardinality(CheckedOut) = max_size
  /\ max_size > 1
  /\ pool = <<>>

\* C5: no handle is owned by two callers at once, and no handle is both in
\* the idle queue and checked out (nor twice in the idle queue)
C5_ExclusiveOwnership ==
  /\ \A t, u \in Threads : (t # u /\ conn[t] # NoConn) => conn[t] # conn[u]
  /\ CheckedOut \cap IdleSet = {}
  /\ Cardinality(IdleSet) = Len(pool)

\* C5 witness: two callers own handles at once, the latest one handed out
\* from the idle queue after an earlier release put it there
C5_Witness ==
  /\ \E t, u \in Threads : t # u /\ conn[t] # NoConn /\ conn[u] # NoConn
  /\ last = "handed_out"
  /\ active_connections > Cardinality(CheckedOut)

\* C6: a get_connection blocked on an exhausted pool does not time out when
\* another thread calls return_connection with a healthy handle before the
\* timeout elapses: no call ends in TimeoutError with such a release seen
\* pending at one of its polls and still pending
C6_BlockedGetServedByRelease ==
  \A t \in Threads :
    pc[t] = "TimeoutError" => ~(release_seen /\ ReleasePending)

\* the pool as the claims call it saturated
Saturated == pool = <<>> /\ active_connections = max_size

\* C7: get_connection(timeout=T) on a saturated pool raises TimeoutError only
\* once T has elapsed, never returns a handle, and leaves the idle queue and
\* active_connections as they were before the call
C7_TimeoutOnlyAfterT ==
  [][\A t \in Threads :
       /\ (GetStep(t) /\ Saturated) =>
            /\ pc'[t] = "waiting" /\ conn'[t] = NoConn
            /\ pool' = pool /\ active_connections' = active_connections
       /\ (pc[t] = "waiting" /\ Saturated) =>
            /\ conn'[t] = NoConn
            /\ pool' = pool /\ active_connections' = active_connections
            /\ pc'[t] \in {"waiting", "TimeoutError"}
            /\ pc'[t] = "TimeoutError" => wait_elapsed >= wait_timeout
    ]_vars

\* C7 witness: a call with a positive timeout on a saturated pool has raised
\* TimeoutError after its polls
C7_Witness ==
  /\ \E t \in Threads : pc[t] = "TimeoutError"
  /\ wait_timeout > 0 /\ wait_elapsed = wait_timeout
  /\ Saturated

\* C8: get_connection with the idle queue empty and active_connections <
\* max_size whose backend open fails raises the creation error at once (no
\* wait loop, no second open) and leaves active_connections and the idle
\* queue unchanged
C8_CreationErrorImmediate ==
  [][\A t \in Threads :
       /\ (GetStep(t) /\ pool = <<>> /\ active_connections < max_size) =>
            /\ pc'[t] = "get_open"
            /\ pool' = pool /\ active_connections' = active_connections
       /\ (pc[t] = "get_open" /\ pc'[t] # "get_open") =>
            \/ pc'[t] = "ready" /\ conn'[t] # NoConn
            \/ /\ pc'[t] = "ConnectionError" /\ conn'[t] = NoConn
               /\ pool' = pool /\ active_connections' = active_connections
               /\ NoNewHandle
    ]_vars

\* C8 witness: a backend open made for an empty, unsaturated pool has failed
\* and the caller holds the creation error
C8_Witness ==
  /\ \E t \in Threads : pc[t] = "ConnectionError" /\ conn[t] = NoConn
  /\ last = "open_failed"
  /\ pool = <<>> /\ active_connections < max_size

\* C9: whenever the idle queue is non-empty at the start of get_connection,
\* the call returns the handle popped from the queue, adds 1 to
\* active_connections and opens no connection, whatever active_connections is
C9_ReuseBeforeCreate ==
  [][\A t \in Threads :
       (GetStep(t) /\ pool # <<>>) =>
          /\ pc'[t] = "ready" /\ conn'[t] = Head(pool)
          /\ pool' = Tail(pool)
          /\ active_connections' = active_connections + 1
          /\ NoNewHandle
    ]_vars

\* C9 witness: a handle was handed out from the idle queue although
\* active_connections had already reached max_size
C9_Witness ==
  /\ last = "handed_out"
  /\ active_connections > max_size
  /\ \E t \in Threads : conn[t] # NoConn /\ pc[t] = "ready"

\* C10: return_connection of a handle that is not open puts nothing into the
\* idle queue, runs no probe and no backend open, and takes exactly 1 off
\* active_connections
C10_ClosedHandleDiscarded ==
  [][\A t \in Threads :
       (ReturnStep(t) /\ ~IsOpen(conn[t])) =>
          /\ pc'[t] = "ready" /\ conn'[t] = NoConn
          /\ pool' = pool
          /\ active_connections' = active_connections - 1
          /\ NoNewHandle
    ]_vars

\* C10 witness: a handle that was not open has been returned and dropped
\* while another caller still owns a handle
C10_Witness ==
  /\ last = "discarded"
  /\ \E t \in Threads : conn[t] # NoConn
  /\ \E t \in Threads : conn[t] = NoConn /\ pc[t] = "ready"

\* C11: return_connection of an open handle whose probe fails has exactly
\* one of two effects.  Replacement opened: the failed handle is not
\* enqueued, the new handle is, so the idle queue is as large as a healthy
\* release would leave it, and active_connections is not lowered.
\* Replacement failed: nothing is enqueued and active_connections is lowered
\* by exactly 1.
C11_ReplaceOrDiscard ==
  [][\A t \in Threads :
       /\ (pc[t] = "ret_probe" /\ pc'[t] # "ret_probe" /\ ~ProbeOk(conn[t])) =>
            /\ pc'[t] = "ret_open" /\ conn'[t] = conn[t]
            /\ pool' = pool /\ active_connections' = active_connections
       /\ (pc[t] = "ret_open" /\ pc'[t] # "ret_open") =>
            LET Replaced ==
                  /\ Len(pool') = Len(pool) + 1
                  /\ SubSeq(pool', 1, Len(pool)) = pool
                  /\ hstate[pool'[Len(pool')]] = "none"
                  /\ hstate'[pool'[Len(pool')]] = "healthy"
                  /\ pool'[Len(pool')] # conn[t]
                  /\ active_connections' = active_connections
                Dropped ==
                  /\ pool' = pool
                  /\ active_connections' = active_connections - 1
            IN /\ conn[t] \notin {pool'[i] : i \in DOMAIN pool'}
               /\ conn'[t] = NoConn
               /\ (Replaced /\ ~Dropped) \/ (Dropped /\ ~Replaced)
    ]_vars

\* C11 witness: a handle that failed its probe was replaced by a new idle
\* handle while the counter still counts the released slot
C11_Witness ==
  /\ last = "replaced"
  /\ pool # <<>>
  /\ active_connections > Cardinality(CheckedOut)

\* C12: return_connection never raises: every step a thread takes inside it
\* leads on inside the method or back to the caller, for every handle state,
\* probe outcome and backend answer
C12_ReturnNeverRaises ==
  [][\A t \in Threads :
       (ReturnStep(t) \/ pc[t] \in {"ret_probe", "ret_open"}) =>
          pc'[t] \in {"ready", "ret_probe", "ret_open", "put_blocked"}
    ]_vars

\* C12 witness: the probe failed, the replacement open failed too, and the
\* releasing caller got control back without an exception
C12_Witness ==
  /\ last = "replace_failed"
  /\ \E t \in Threads : pc[t] = "ready" /\ conn[t] = NoConn
  /\ \A t \in Threads : pc[t] \notin {"ConnectionError", "TimeoutError"}

\* C13: connection(timeout) calls return_connection exactly once on the
\* acquired handle on every exit path of the unit of work (normal return,
\* exception, early exit) and not at all when get_connection raised
C13_ScopedReleasesOnce ==
  /\ released \in {0, 1}
  /\ scope = "entered" => released = 0
  /\ scope \in ExitPaths =>
       /\ released = 1
       /\ pc[Scoped] \in {"ret_lock", "ret_probe", "ret_open", "ready"}
       /\ pc[Scoped] = "ready" => conn[Scoped] = NoConn
  /\ scope = "raised" => released = 0 /\ conn[Scoped] = NoConn

\* C13 witness: the unit of work raised, and the one return_connection call
\* of the finally clause has given the handle back
C13_Witness ==
  /\ scope = "error" /\ released = 1
  /\ pc[Scoped] = "ready" /\ conn[Scoped] = NoConn
  /\ last \in {"enqueued", "replaced", "discarded", "replace_failed"}

\* C14: after close_all, from any reachable state, every handle that was
\* idle is closed, the idle queue is empty and active_connections is 0
C14_CloseAllEmptiesPool ==
  [][last' = "closed_all" =>
       /\ pool' = <<>>
       /\ active_connections' = 0
       /\ \A h \in IdleSet : hstate'[h] \notin {"healthy", "stale"}
    ]_vars

\* C14 witness: close_all has run while a handle was checked out, so the
\* counter it set to 0 had counted that handle
C14_Witness ==
  /\ last = "closed_all"
  /\ CheckedOut # {}
  /\ pool = <<>> /\ active_connections = 0

\* C15: stats() returns a snapshot taken with no other method under way:
\* pool_size and available_connections are both the length of the idle
\* queue, max_size the configured value, active_connections the counter and
\* used_percentage = active_connections / max_size * 100
C15_StatsSnapshot ==
  [][stats_out' # stats_out =>
       /\ lock = NoThread
       /\ stats_out'.pool_size = Len(pool)
       /\ stats_out'.available_connections = stats_out'.pool_size
       /\ stats_out'.max_size = max_size
       /\ stats_out'.active_connections = active_connections
       /\ stats_out'.used_percentage.den # 0
       /\ stats_out'.used_percentage.num * max_size
            = active_connections * 100 * stats_out'.used_percentage.den
    ]_vars

\* C15 witness: stats() has reported one idle handle and a counter of 1 on
\* a pool of 2, i.e. 50 per cent
C15_Witness ==
  /\ stats_out # NoStats
  /\ stats_out.pool_size = 1 /\ stats_out.active_connections = 1
  /\ stats_out.max_size = 2
  /\ stats_out.used_percentage = [num |-> 100, den |-> 2]

\* the opens of the warm-up that returned a connection
Opened == {i \in DOMAIN init_log : init_log[i] = "opened"}

\* C16: construction attempts exactly min(3, max_size) backend opens and
\* enqueues every handle that opened; a failed open is skipped, so the pool
\* starts with 0 to min(3, max_size) idle handles and active_connections = 0,
\* and construction never raises
C16_WarmUp ==
  /\ last \in {"constructing", "constructed"}
  /\ Len(init_log) + init_left = Min(3, max_size)
  /\ last = "constructed" => Len(init_log) = Min(3, max_size)
  /\ Len(pool) = Cardinality(Opened)
  /\ Cardinality(IdleSet) = Len(pool)
  /\ \A h \in Handles : h \in IdleSet <=> hstate[h] # "none"
  /\ \A h \in IdleSet : IsOpen(h)
  /\ Len(pool) <= Min(3, max_size)
  /\ active_connections = 0

\* C16 witness: a pool with max_size above 3 is constructed after three
\* opens of which some failed and some did not
C16_Witness ==
  /\ last = "constructed"
  /\ max_size > 3
  /\ Len(init_log) = 3
  /\ \E i, j \in DOMAIN init_log : init_log[i] = "failed" /\ init_log[j] = "opened"
  /\ Len(pool) \in {1, 2}

\* the pool as its construction leaves it when every warm-up open succeeded,
\* and as hand-outs alone change it: max_size handles exist, each idle or
\* checked out, and the counter counts the ones checked out
WarmFull ==
  /\ Len(pool) + Cardinality(CheckedOut) = max_size
  /\ Cardinality(IdleSet \cup CheckedOut) = max_size
  /\ \A h \in Handles : hstate[h] # "none" <=> h \in IdleSet \cup CheckedOut
  /\ active_connections = Cardinality(CheckedOut)

\* C17: on a pool whose warm-up filled it to max_size idle handles, each of
\* max_size get_connection calls is served in its first step with an idle
\* handle and no backend open, which leaves active_connections = max_size and
\* the idle queue empty; one more get_connection while all handles are held
\* opens nothing, waits, and can only leave the wait with TimeoutError, after
\* its timeout
C17_WarmPoolServesThenTimesOut ==
  [][\A t \in Threads :
       /\ (GetStep(t) /\ WarmFull /\ pool # <<>>) =>
            /\ pc'[t] = "ready" /\ conn'[t] = Head(pool)
            /\ lock' = NoThread
            /\ NoNewHandle
            /\ active_connections' = active_connections + 1
            /\ Len(pool') = Len(pool) - 1
            /\ (Cardinality(CheckedOut') = max_size =>
                  active_connections' = max_size /\ pool' = <<>>)
       /\ (GetStep(t) /\ WarmFull /\ pool = <<>>) =>
            /\ pc'[t] = "waiting" /\ conn'[t] = NoConn
            /\ NoNewHandle
            /\ pool' = pool /\ active_connections' = active_connections
       /\ (pc[t] = "waiting" /\ WarmFull /\ pool = <<>>) =>
            /\ pc'[t] \in {"waiting", "TimeoutError"} /\ conn'[t] = NoConn
            /\ NoNewHandle
            /\ pool' = pool /\ active_connections' = active_connections
            /\ wait_elapsed <= wait_timeout /\ wait_elapsed' >= wait_elapsed
            /\ pc'[t] = "TimeoutError" => wait_elapsed >= wait_timeout
    ]_vars

\* C17 witness: max_size = 2, two callers hold the two warm handles, nothing
\* else was ever opened, and a third caller's get_connection with a positive
\* timeout has just raised TimeoutError
C17_Witness ==
  /\ max_size = 2
  /\ last = "timed_out"
  /\ \E t \in Threads :
       /\ pc[t] = "TimeoutError" /\ conn[t] = NoConn
       /\ {conn[u] : u \in Threads \ {t}} = {1, 2}
       /\ \A u \in Threads \ {t} : pc[u] = "ready"
  /\ \A h \in Handles : hstate[h] # "none" <=> h \in {1, 2}
  /\ wait_timeout > 0 /\ wait_elapsed = wait_timeout
  /\ active_connections = 2 /\ pool = <<>>

\* C18: with max_size = 1 and one handle checked out, returning that handle
\* closed leaves active_connections = 0 and the idle queue empty, and the
\* get_connection that follows starts a backend open, whose success gives the
\* caller a handle that did not exist before
C18_DiscardFreesSlot ==
  [][\A t \in Threads :
       /\ (/\ ReturnStep(t) /\ max_size = 1 /\ active_connections = 1
           /\ pool = <<>> /\ ~IsOpen(conn[t])) =>
            /\ pc'[t] = "ready" /\ conn'[t] = NoConn
            /\ active_connections' = 0 /\ pool' = <<>>
            /\ NoNewHandle
       /\ (/\ GetStep(t) /\ max_size = 1 /\ active_connections = 0
           /\ pool = <<>>) =>
            /\ pc'[t] = "get_open" /\ conn'[t] = NoConn
            /\ pool' = <<>> /\ active_connections' = 0
       /\ (/\ pc[t] = "get_open" /\ max_size = 1 /\ active_connections = 0
           /\ pool = <<>> /\ conn'[t] # NoConn) =>
            /\ hstate[conn'[t]] = "none" /\ hstate'[conn'[t]] = "healthy"
            /\ active_connections' = 1 /\ pool' = <<>>
            /\ pc'[t] = "ready"
    ]_vars

\* C18 witness: max_size = 1, the only handle was returned closed and
\* dropped, which left the counter at 0 and the queue empty
C18_Witness ==
  /\ max_size = 1
  /\ last = "discarded"
  /\ active_connections = 0 /\ pool = <<>>
  /\ \A t \in Threads : conn[t] = NoConn /\ pc[t] = "ready"

\* the step with which the call that holds the lock goes on
LockHolderStep ==
  \/ get_connection_open(lock)
  \/ get_connection_wait(lock)
  \/ return_connection_probe(lock)
  \/ return_connection_open(lock)

\* C19: every get_connection call ends, with a handle, the creation error or
\* TimeoutError, whatever get_connection, return_connection and close_all
\* calls of other threads it runs among.  A call starts by taking the lock,
\* so whenever a thread can call get_connection and the lock is held, the
\* call that holds it can go on
C19_GetConnectionTerminates ==
  \A t \in Threads :
    (pc[t] = "ready" /\ conn[t] = NoConn /\ lock # NoThread) =>
       ENABLED LockHolderStep

\* C20: the pool grows on demand up to max_size: after completed operations,
\* one release per acquire, a get_connection that finds the idle queue empty
\* and fewer than max_size handles checked out starts a backend open, and
\* does not enter the wait loop
C20_GrowsOnDemand ==
  [][\A t \in Threads :
       (/\ GetStep(t) /\ Quiescent
        /\ pool = <<>> /\ Cardinality(CheckedOut) < max_size) =>
          pc'[t] = "get_open"
    ]_vars

\* C21: get_connection is the only operation that can block: a thread that
\* waits inside get_connection on an exhausted pool does not hold the pool
\* lock, so return_connection, stats and close_all of other threads do not
\* wait for it
C21_WaitOutsideLock ==
  \A t \in Threads : pc[t] = "waiting" => lock # t

\* C22: the backend open of get_connection, the liveness probe and the
\* replacement open of return_connection run while the pool lock is not
\* held, so another thread can take the lock meanwhile
C22_BackendIOOutsideLock ==
  \A t \in Threads :
    pc[t] \in {"get_open", "ret_probe", "ret_open"} => lock # t

\* the step is one in which return_connection of t reaches self._pool.put
PutStep(t) ==
  /\ pc[t] \in {"ret_probe", "ret_open"}
  /\ (pool' # pool \/ pc'[t] = "put_blocked")

\* C23: whenever return_connection enqueues a handle, the returned one or
\* its replacement, the idle queue holds fewer than max_size handles, so the
\* put neither overflows nor blocks with the lock held
C23_EnqueueNeverBlocks ==
  [][\A t \in Threads :
       PutStep(t) =>
         /\ Len(pool) < max_size
         /\ pc'[t] # "put_blocked"
         /\ Len(pool') = Len(pool) + 1
    ]_vars

\* the handles that the step puts into the idle queue
Enqueued == IdleSet' \ IdleSet

\* C24: every handle in the idle queue was open when it was enqueued.  A
\* handle enters the queue only from the warm-up after its open succeeded,
\* from return_connection after conn.open was true and the probe succeeded,
\* or as the replacement return_connection has just opened; a handle that is
\* closed or fails its probe at release time is not enqueued
C24_EnqueuedOpen ==
  [][/\ \A h \in Enqueued :
          /\ hstate'[h] \in {"healthy", "stale"}
          /\ \/ /\ last = "constructing"
                /\ hstate[h] = "none" /\ hstate'[h] = "healthy"
             \/ \E t \in Threads :
                  /\ pc[t] = "ret_probe" /\ conn[t] = h
                  /\ hstate[h] = "healthy"
             \/ \E t \in Threads :
                  /\ pc[t] = "ret_open" /\ conn[t] # h
                  /\ hstate[h] = "none" /\ hstate'[h] = "healthy"
     /\ \A t \in Threads :
          (/\ pc[t] \in {"ready", "ret_lock", "ret_probe"} /\ conn[t] # NoConn
           /\ hstate[conn[t]] # "healthy") => conn[t] \notin Enqueued
     /\ Cardinality(Enqueued) <= 1
    ]_vars

\* C24 witness: after a warm-up in which an open failed and an open
\* succeeded, a handle that failed its probe was returned and its replacement
\* was enqueued behind the warm handle
C24_Witness ==
  /\ last = "replaced"
  /\ \E i, j \in DOMAIN init_log : init_log[i] = "failed" /\ init_log[j] = "opened"
  /\ Len(pool) = 2

\* C25: the idle queue is FIFO.  Every step leaves the queue as it is, takes
\* its first entry out or adds one entry behind the others, so the entries
\* leave in the order in which the warm-up and return_connection put them
\* in; and the handle get_connection gives its caller, from the immediate
\* pop or from the wait loop, is the first entry of the queue
C25_IdleQueueFIFO ==
  [][/\ \/ pool' = pool
        \/ pool # <<>> /\ pool' = Tail(pool)
        \/ \E h \in Handles \ IdleSet : pool' = Append(pool, h)
     /\ \A t \in Threads :
          (/\ pc[t] \in {"ready", "waiting"} /\ conn[t] = NoConn
           /\ conn'[t] # NoConn /\ pool # <<>>) =>
             /\ conn'[t] = Head(pool)
             /\ pool' = Tail(pool)
    ]_vars

\* C25 witness: handle 2 was returned before handle 1, and the
\* get_connection that followed handed out handle 2 and left handle 1
C25_Witness ==
  /\ last = "handed_out"
  /\ pool = <<1>>
  /\ \E t \in Threads : conn[t] = 2
  /\ \A t \in Threads : conn[t] \in {NoConn, 2}

\* C26: active_connections is never negative, whatever get_connection,
\* return_connection and close_all calls interleave, each acquired handle
\* being released at most once, handles released after a close_all included
C26_ActiveNeverNegative == active_connections >= 0

\* the step is a close_all call that found something to change
CloseAllStep ==
  /\ last' = "closed_all"
  /\ (last # "closed_all" \/ pool # <<>> \/ active_connections # 0)

\* C27: close_all leaves the handles that are checked out untouched: it
\* does not close them or change their state, no caller loses its handle,
\* and the only handles closed are those that were in the idle queue
C27_CloseAllSparesCheckedOut ==
  [][CloseAllStep =>
       /\ conn' = conn
       /\ \A h \in CheckedOut : hstate'[h] = hstate[h]
       /\ \A h \in Handles : hstate'[h] # hstate[h] => h \in IdleSet
       /\ \A h \in IdleSet : hstate'[h] \notin {"healthy", "stale"}
    ]_vars

\* C27 witness: close_all has run on a pool of 2 while handle 1 was checked
\* out and open, and handle 1 is still open in its caller's hands
C27_Witness ==
  /\ last = "closed_all"
  /\ max_size = 2
  /\ \E t \in Threads : conn[t] = 1 /\ hstate[1] = "healthy"
  /\ \A h \in Handles \ {1} : hstate[h] = "none"
  /\ pool = <<>>

\* C28: a healthy open handle released after close_all re-populates the
\* pool: once close_all has set the counter to 0 and emptied the queue, the
\* release is accepted like any other, the handle becomes the one idle entry
\* and the counter stays 0; and a get_connection that finds that entry
\* hands the same handle out again
C28_ReleaseAfterCloseAllRevives ==
  [][\A t \in Threads :
       /\ (/\ ReturnStep(t) /\ IsOpen(conn[t])
           /\ pool = <<>> /\ active_connections = 0) =>
            /\ pc'[t] = "ret_probe" /\ conn'[t] = conn[t]
       /\ (/\ pc[t] = "ret_probe" /\ pc'[t] # "ret_probe"
           /\ hstate[conn[t]] = "healthy"
           /\ pool = <<>> /\ active_connections = 0) =>
            /\ pool' = <<conn[t]>>
            /\ active_connections' = 0
            /\ pc'[t] = "ready" /\ conn'[t] = NoConn
            /\ hstate'[conn[t]] = "healthy"
       /\ (/\ GetStep(t) /\ Len(pool) = 1 /\ active_connections = 0) =>
            /\ conn'[t] = pool[1] /\ pc'[t] = "ready"
            /\ pool' = <<>> /\ active_connections' = 1
            /\ NoNewHandle
    ]_vars

\* C28 witness: a healthy handle has been put back with the counter at 0,
\* which only a close_all between its hand-out and its release brings about;
\* it is the one idle entry
C28_Witness ==
  /\ last = "enqueued"
  /\ active_connections = 0
  /\ Len(pool) = 1 /\ hstate[pool[1]] = "healthy"
  /\ CheckedOut = {}

\* C29: stats() is a pure observation: the call leaves the idle queue, its
\* contents and their order, active_connections, max_size and the state of
\* every handle as they were, opens no connection, and changes nothing of
\* any caller
C29_StatsPure ==
  [][stats_out' # stats_out =>
       /\ pool' = pool
       /\ active_connections' = active_connections
       /\ max_size' = max_size
       /\ hstate' = hstate
       /\ NoNewHandle
       /\ lock' = lock /\ pc' = pc /\ conn' = conn
    ]_vars

\* C29 witness: stats() has reported two idle handles, which are in the
\* queue as before, in the order in which they were returned
C29_Witness ==
  /\ stats_out # NoStats
  /\ stats_out.pool_size = 2
  /\ pool = <<2, 1>>
  /\ stats_out.active_connections = active_connections
  /\ lock = NoThread

\* C30: get_connection_pool is a process-wide singleton: whatever calls run
\* concurrently, at most one ConnectionPool is constructed, every call
\* returns that one instance, and once it exists the config and max_size
\* arguments of later calls change nothing of it
C30_Singleton ==
  [][/\ pools_built' <= 1
     /\ (pool_instance = NoPool) <=> (pools_built = 0)
     /\ pool_instance # NoPool =>
          /\ pool_instance' = pool_instance
          /\ max_size' = max_size /\ pool' = pool
     /\ \A t \in Threads :
          gret'[t] # gret[t] =>
            /\ gret'[t] # NoPool
            /\ gret'[t] = pool_instance
            /\ \A u \in Threads : gret[u] \in {NoPool, gret'[t]}
    ]_vars

\* C30 witness: two threads have been given the one instance, and a third
\* call, whose arguments differ from those the instance was built with, is
\* about to return it
C30_Witness ==
  /\ pools_built = 1
  /\ \E t \in Threads :
       /\ gpc[t] = "return"
       /\ ResolveConfig(garg[t].config) # pool_instance.config
       /\ garg[t].max_size # pool_instance.max_size
       /\ \A u \in Threads \ {t} : gret[u] = pool_instance
  /\ max_size = pool_instance.max_size

====
